---------------------------- MODULE Spec2Model ----------------------------
(***************************************************************************)
(* Model of src/api.py: the three GET operations of the GIOS air-quality   *)
(* client (fetch_stations, fetch_sensors_for_station,                      *)
(* fetch_measurements_for_sensor) and the normalizer                       *)
(* process_measurement_data.                                               *)
(*                                                                         *)
(* Decoded JSON is modelled by tagged records; strings are sequences of    *)
(* one-character strings, so that datetime.strptime and float() are        *)
(* computed character by character.  An exception leaving a function is    *)
(* recorded by its class name in exc ("none" when the call returned).      *)
(***************************************************************************)
EXTENDS Integers, Sequences, FiniteSets

(***************************************************************************)
(* Bounds of the model.                                                    *)
(***************************************************************************)
\* longest 'values' list handed to process_measurement_data
MaxLen == 2
\* station and sensor identifiers range over 1..MaxId
MaxId == 2
\* calls of process_measurement_data on one and the same raw object
MaxCalls == 2

(***************************************************************************)
(* Decoded JSON values (what response.json() can put in a field).          *)
(*   t = "missing" : the key is not in the dict                            *)
(*   t = "null"    : JSON null, Python None                                *)
(*   t = "str"     : a string, s its characters                            *)
(*   t = "num"     : a number that fits a float (the integers n here)      *)
(*   t = "bigint"  : an integer literal beyond the range of a float        *)
(*   t = "bool"    : true (n = 1) or false (n = 0)                         *)
(*   t = "list"    : a list of n elements                                  *)
(***************************************************************************)
JV(t, s, n) == [t |-> t, s |-> s, n |-> n]
Missing == JV("missing", <<>>, 0)
Null == JV("null", <<>>, 0)
Str(s) == JV("str", s, 0)
Num(n) == JV("num", <<>>, n)
BigInt == JV("bigint", <<>>, 0)
Bool(b) == JV("bool", <<>>, IF b THEN 1 ELSE 0)
List(n) == JV("list", <<>>, n)

\* dict.get(k): None when the key is missing (lines 99, 103, 104)
DictGet(v) == IF v.t = "missing" THEN Null ELSE v

\* Python truth value of a decoded JSON value (`if date_str:`, line 108)
Truthy(v) ==
    CASE v.t \in {"missing", "null"} -> FALSE
      [] v.t = "str" -> Len(v.s) > 0
      [] v.t \in {"num", "bool", "list"} -> v.n # 0
      [] OTHER -> TRUE

(***************************************************************************)
(* Characters.                                                             *)
(***************************************************************************)
Digits == <<"0", "1", "2", "3", "4", "5", "6", "7", "8", "9">>
IsDigit(c) == \E i \in 1..10 : Digits[i] = c
DigitVal(c) == (CHOOSE i \in 1..10 : Digits[i] = c) - 1
IsSpace(c) == c = " "
\* the character at position p, "" past either end
Ch(s, p) == IF p >= 1 /\ p <= Len(s) THEN s[p] ELSE ""
IsDigitAt(s, p) == IsDigit(Ch(s, p))
\* the number written by the two digits at p, p+1; -1 when they are not two digits
Num2(s, p) ==
    IF IsDigitAt(s, p) /\ IsDigitAt(s, p + 1)
    THEN DigitVal(s[p]) * 10 + DigitVal(s[p + 1])
    ELSE -1

(***************************************************************************)
(* datetime.strptime(date_str, '%Y-%m-%d %H:%M:%S'), line 110.             *)
(* The format compiles to the regular expression                           *)
(*   \d\d\d\d - (1[0-2]|0[1-9]|[1-9]) - (3[01]|[12]\d|0[1-9]|[1-9]| [1-9]) *)
(*   \s+ (2[0-3]|[0-1]\d|\d) : ([0-5]\d|\d) : (6[01]|[0-5]\d|\d)           *)
(* which must match the whole string; the fields must then name a date     *)
(* that exists (year >= 1, day within the month, second <= 59).  Each      *)
(* field is followed by a non-digit, so the first alternative that matches *)
(* is the only one that can.  XLen is the length matched by field X at     *)
(* position p, 0 when it does not match.                                   *)
(***************************************************************************)
YearLen(s, p) ==
    IF \A k \in 0..3 : IsDigitAt(s, p + k) THEN 4 ELSE 0
MonthLen(s, p) ==
    IF Num2(s, p) \in 1..12 THEN 2
    ELSE IF IsDigitAt(s, p) /\ s[p] # "0" THEN 1 ELSE 0
DayLen(s, p) ==
    IF Num2(s, p) \in 1..31 THEN 2
    ELSE IF IsDigitAt(s, p) /\ s[p] # "0" THEN 1
    ELSE IF Ch(s, p) = " " /\ IsDigitAt(s, p + 1) /\ s[p + 1] # "0" THEN 2
    ELSE 0
HourLen(s, p) ==
    IF Num2(s, p) \in 0..23 THEN 2 ELSE IF IsDigitAt(s, p) THEN 1 ELSE 0
MinuteLen(s, p) ==
    IF Num2(s, p) \in 0..59 THEN 2 ELSE IF IsDigitAt(s, p) THEN 1 ELSE 0
SecondLen(s, p) ==
    IF Num2(s, p) \in 0..61 THEN 2 ELSE IF IsDigitAt(s, p) THEN 1 ELSE 0

\* the run of whitespace starting at p (\s+ is greedy)
RECURSIVE SpaceLen(_, _)
SpaceLen(s, p) == IF IsSpace(Ch(s, p)) THEN 1 + SpaceLen(s, p + 1) ELSE 0

\* the number a matched field of length n at p writes
FieldVal(s, p, n) ==
    IF n = 4 THEN Num2(s, p) * 100 + Num2(s, p + 2)
    ELSE IF n = 2 THEN (IF s[p] = " " THEN DigitVal(s[p + 1]) ELSE Num2(s, p))
    ELSE DigitVal(s[p])

IsLeap(y) == y % 4 = 0 /\ (y % 100 # 0 \/ y % 400 = 0)
DaysInMonth(y, m) ==
    IF m = 2 THEN (IF IsLeap(y) THEN 29 ELSE 28)
    ELSE IF m \in {4, 6, 9, 11} THEN 30 ELSE 31

\* a normalized timestamp: absent (some = FALSE) or a datetime
NoDate == [some |-> FALSE, Y |-> 0, m |-> 0, d |-> 0, H |-> 0, M |-> 0, S |-> 0]
DateTime(Y, m, d, H, M, S) ==
    [some |-> TRUE, Y |-> Y, m |-> m, d |-> d, H |-> H, M |-> M, S |-> S]

\* The match runs left to right over a cursor: s the string, p the position
\* reached, ok whether the pattern matched so far, f the fields read.
Start(s) == [s |-> s, p |-> 1, ok |-> TRUE, f |-> <<>>]
\* read a field of length n at the cursor (n = 0: it does not match)
Take(st, n) ==
    IF st.ok /\ n > 0
    THEN [st EXCEPT !.p = @ + n, !.f = Append(@, FieldVal(st.s, st.p, n))]
    ELSE [st EXCEPT !.ok = FALSE]
\* read the literal character c
Lit(st, c) ==
    IF st.ok /\ Ch(st.s, st.p) = c
    THEN [st EXCEPT !.p = @ + 1]
    ELSE [st EXCEPT !.ok = FALSE]
\* read \s+
Spaces(st) ==
    IF st.ok /\ IsSpace(Ch(st.s, st.p))
    THEN [st EXCEPT !.p = @ + SpaceLen(st.s, st.p)]
    ELSE [st EXCEPT !.ok = FALSE]
TakeYear(st) == Take(st, YearLen(st.s, st.p))
TakeMonth(st) == Take(st, MonthLen(st.s, st.p))
TakeDay(st) == Take(st, DayLen(st.s, st.p))
TakeHour(st) == Take(st, HourLen(st.s, st.p))
TakeMinute(st) == Take(st, MinuteLen(st.s, st.p))
TakeSecond(st) == Take(st, SecondLen(st.s, st.p))

\* '%Y-%m-%d %H:%M:%S'
MatchFormat(s) ==
    TakeSecond(Lit(TakeMinute(Lit(TakeHour(Spaces(
        TakeDay(Lit(TakeMonth(Lit(TakeYear(Start(s)), "-")), "-")))), ":")), ":"))

\* the whole string matched ("unconverted data remains" otherwise) and the
\* fields <<Y, m, d, H, M, S>> name a datetime
ToDateTime(st) ==
    IF /\ st.ok /\ st.p = Len(st.s) + 1
       /\ st.f[1] >= 1 /\ st.f[3] <= DaysInMonth(st.f[1], st.f[2]) /\ st.f[6] <= 59
    THEN [ok |-> TRUE,
          date |-> DateTime(st.f[1], st.f[2], st.f[3], st.f[4], st.f[5], st.f[6])]
    ELSE [ok |-> FALSE, date |-> NoDate]

\* strptime on the characters s: [ok, date]; ok = FALSE is ValueError
Strptime(s) == ToDateTime(MatchFormat(s))

(***************************************************************************)
(* float(value_str), line 119.  A float is kept as the exact decimal       *)
(* m * 10^e (m without trailing zeros, zero as m = 0, e = 0), NaN or an    *)
(* infinity; the strings of the model are short, so the decimal is within  *)
(* the range and the precision of a double.                                *)
(***************************************************************************)
NoFloat == [some |-> FALSE, kind |-> "none", neg |-> FALSE, m |-> 0, e |-> 0]
NaN == [some |-> TRUE, kind |-> "nan", neg |-> FALSE, m |-> 0, e |-> 0]
Inf(neg) == [some |-> TRUE, kind |-> "inf", neg |-> neg, m |-> 0, e |-> 0]

\* m * 10^e with the trailing zeros of m moved into e
RECURSIVE Finite(_, _, _)
Finite(neg, m, e) ==
    IF m = 0 THEN [some |-> TRUE, kind |-> "fin", neg |-> FALSE, m |-> 0, e |-> 0]
    ELSE IF m % 10 = 0 THEN Finite(neg, m \div 10, e + 1)
    ELSE [some |-> TRUE, kind |-> "fin", neg |-> neg, m |-> m, e |-> e]

\* s without its leading / trailing whitespace (float() strips both)
RECURSIVE LStrip(_)
LStrip(s) == IF s # <<>> /\ IsSpace(Head(s)) THEN LStrip(Tail(s)) ELSE s
RECURSIVE RStrip(_)
RStrip(s) ==
    IF s # <<>> /\ IsSpace(s[Len(s)]) THEN RStrip(SubSeq(s, 1, Len(s) - 1)) ELSE s

AllDigits(s) == \A i \in 1..Len(s) : IsDigit(s[i])
\* the number written by the digits s (0 for no digits)
RECURSIVE DigitsVal(_)
DigitsVal(s) ==
    IF s = <<>> THEN 0
    ELSE DigitsVal(SubSeq(s, 1, Len(s) - 1)) * 10 + DigitVal(s[Len(s)])

\* the first position of character c in s, Len(s) + 1 when there is none
FirstAt(s, c) ==
    IF \E i \in 1..Len(s) : s[i] = c
    THEN CHOOSE i \in 1..Len(s) : s[i] = c /\ \A j \in 1..(i - 1) : s[j] # c
    ELSE Len(s) + 1
\* s before / from the first c
Before(s, c) == SubSeq(s, 1, FirstAt(s, c) - 1)
From(s, c) == SubSeq(s, FirstAt(s, c), Len(s))

HasSign(s) == s # <<>> /\ Head(s) \in {"+", "-"}
IsNegative(s) == HasSign(s) /\ Head(s) = "-"
Unsigned(s) == IF HasSign(s) THEN Tail(s) ELSE s

\* the exponent part ex: empty, or e [sign] digits
ExpOk(ex) ==
    ex = <<>> \/ (Unsigned(Tail(ex)) # <<>> /\ AllDigits(Unsigned(Tail(ex))))
ExpVal(ex) ==
    IF ex = <<>> THEN 0
    ELSE IF IsNegative(Tail(ex)) THEN 0 - DigitsVal(Unsigned(Tail(ex)))
    ELSE DigitsVal(Unsigned(Tail(ex)))

\* the digits after the point of dotfp (empty, or a point and what follows it)
FracDigits(dotfp) == IF dotfp = <<>> THEN <<>> ELSE Tail(dotfp)

\* digits ip, an optional point and digits (dotfp), an optional exponent ex;
\* at least one digit before the exponent
Decimal(neg, ip, dotfp, ex) ==
    IF /\ AllDigits(ip) /\ AllDigits(FracDigits(dotfp))
       /\ Len(ip) + Len(FracDigits(dotfp)) > 0
       /\ ExpOk(ex)
    THEN [ok |-> TRUE,
          val |-> Finite(neg, DigitsVal(ip \o FracDigits(dotfp)),
                         ExpVal(ex) - Len(FracDigits(dotfp)))]
    ELSE [ok |-> FALSE, val |-> NoFloat]

\* the text u after the sign
Magnitude(neg, u) ==
    IF u = <<"n", "a", "n">> THEN [ok |-> TRUE, val |-> NaN]
    ELSE IF u \in {<<"i", "n", "f">>, <<"i", "n", "f", "i", "n", "i", "t", "y">>}
    THEN [ok |-> TRUE, val |-> Inf(neg)]
    ELSE Decimal(neg, Before(Before(u, "e"), "."), From(Before(u, "e"), "."), From(u, "e"))

Signed(b) == Magnitude(IsNegative(b), Unsigned(b))

\* float() on the characters s: [ok, val]; ok = FALSE is ValueError.
\* Grammar: [ws] [sign] (nan | inf | infinity | digits [. digits] [e [sign] digits]) [ws]
FloatOfStr(s) == Signed(RStrip(LStrip(s)))

\* a string converted: the float, or ValueError
Converted(f) ==
    IF f.ok THEN [exc |-> "none", val |-> f.val]
    ELSE [exc |-> "ValueError", val |-> NoFloat]

\* float() on any decoded JSON value: [exc, val]
FloatOf(v) ==
    CASE v.t = "str" -> Converted(FloatOfStr(v.s))
      [] v.t \in {"num", "bool"} ->
           [exc |-> "none", val |-> Finite(v.n < 0, IF v.n < 0 THEN 0 - v.n ELSE v.n, 0)]
      [] v.t = "bigint" -> [exc |-> "OverflowError", val |-> NoFloat]
      [] OTHER -> [exc |-> "TypeError", val |-> NoFloat]

(***************************************************************************)
(* What the functions print: one record per print() call.                 *)
(*   id    : the station / sensor id formatted into the text (0: none)    *)
(*   about : the date_str / value_str formatted into a warning            *)
(*   err   : the exception formatted into a fetch error                   *)
(***************************************************************************)
Msg(kind, id, about, err) == [kind |-> kind, id |-> id, about |-> about, err |-> err]
StationsError(err) == Msg("stations_error", 0, Null, err)                \* line 31
SensorsError(id, err) == Msg("sensors_error", id, Null, err)             \* line 55
MeasurementsError(id, err) == Msg("measurements_error", id, Null, err)   \* line 78
InvalidData == Msg("invalid_data", 0, Null, "")                          \* line 96
DateWarning(date_str) == Msg("date_warning", 0, date_str, "")            \* line 112
ValueWarning(value_str) == Msg("value_warning", 0, value_str, "")        \* line 121

(***************************************************************************)
(* The three GET operations, lines 8-79.                                   *)
(***************************************************************************)
GIOS_API_BASE_URL == "https://api.gios.gov.pl/pjp-api/rest"
\* timeout=10 of requests.get
Timeout == 10

\* one requests.get call: the endpoint under the base URL, the id formatted
\* into the path (0 for /station/findAll) and the timeout
GetRequest(endpoint, id) ==
    [base |-> GIOS_API_BASE_URL, endpoint |-> endpoint, id |-> id, timeout |-> Timeout]

\* what the network answers to one GET: a connection error, a timeout, or a
\* response with a status and a body that is JSON or is not
NoWire == [kind |-> "none", status |-> 0, json |-> FALSE]
Statuses == {200, 301, 400, 404, 500, 599}
WireOutcomes ==
    {[kind |-> k, status |-> 0, json |-> FALSE] : k \in {"ConnectionError", "Timeout"}}
    \cup {[kind |-> "response", status |-> s, json |-> j] : s \in Statuses, j \in BOOLEAN}

\* RaisesForStatus with a fault: only the 5xx statuses raise
RaisesForServerError(status) == status >= 500 /\ status < 600

\* response.raise_for_status(): HTTPError for a 4xx or 5xx status
RaisesForStatus(status) == status >= 400 /\ status < 600

\* the exception the try block raises for the outcome w, "none" when
\* response.json() returns.  A body that is not JSON makes response.json()
\* raise requests' JSONDecodeError, a RequestException (requests 2.27 on).
Raised(w) ==
    IF w.kind # "response" THEN w.kind
    ELSE IF RaisesForStatus(w.status) THEN "HTTPError"
    ELSE IF ~w.json THEN "JSONDecodeError"
    ELSE "none"

\* except requests.exceptions.RequestException
IsRequestException(e) ==
    e \in {"ConnectionError", "Timeout", "HTTPError", "JSONDecodeError"}

\* the try / except of a fetch function once the try block ended with e:
\*   exc  : the exception that leaves the function, "none" when it returns
\*   none : the except branch returned None (otherwise response.json()
\*          returned the decoded body, verbatim)
\*   log  : what it printed
Handled(e, error) ==
    [exc |-> IF e = "none" \/ IsRequestException(e) THEN "none" ELSE e,
     none |-> IsRequestException(e),
     log |-> IF IsRequestException(e) THEN <<error>> ELSE <<>>]

\* Gets with a fault: a failed request is tried once more
GetsWithRetry(endpoint, id, w) ==
    IF Raised(w) # "none"
    THEN <<GetRequest(endpoint, id), GetRequest(endpoint, id)>>
    ELSE <<GetRequest(endpoint, id)>>

\* the requests.get calls of one fetch, whatever the outcome w of the first:
\* the single call of the try block
Gets(endpoint, id, w) == <<GetRequest(endpoint, id)>>

(***************************************************************************)
(* The raw measurement data handed to process_measurement_data.            *)
(* An entry of the 'values' list is a dict with a 'date' and a 'value'     *)
(* (either may be missing) or something that is no dict.                   *)
(***************************************************************************)
Entry(t, date, value) == [t |-> t, date |-> date, value |-> value]
Obj(date, value) == Entry("obj", date, value)
NonObj(t) == Entry(t, Missing, Missing)

\* the 'values' field: missing, a list of entries, or no list at all.  Iterating
\* a string yields its characters and iterating a dict its keys (strings both),
\* which items holds for t = "str" and t = "obj".
ValuesField(t, items) == [t |-> t, items |-> items]
NoValues == ValuesField("missing", <<>>)

\* the argument: None, a dict with its 'key' and 'values' fields, or a decoded
\* JSON document of another shape (a number n, a string s, a list elems)
Raw(t, n, s, elems, key, values) ==
    [t |-> t, n |-> n, s |-> s, elems |-> elems, key |-> key, values |-> values]
RawNone == Raw("none", 0, <<>>, <<>>, Missing, NoValues)
RawDict(key, values) == Raw("obj", 0, <<>>, <<>>, key, values)
RawNum(n) == Raw("num", n, <<>>, <<>>, Missing, NoValues)
RawStr(s) == Raw("str", 0, s, <<>>, Missing, NoValues)
RawList(elems) == Raw("list", 0, <<>>, elems, Missing, NoValues)

ValuesKey == <<"v", "a", "l", "u", "e", "s">>

\* `not raw_measurements_data` is false (line 95)
RawTruthy(raw) ==
    CASE raw.t = "none" -> FALSE
      [] raw.t = "obj" -> raw.key.t # "missing" \/ raw.values.t # "missing"
      [] raw.t \in {"num", "bool"} -> raw.n # 0
      [] raw.t = "str" -> raw.s # <<>>
      [] raw.t = "list" -> raw.elems # <<>>
      [] OTHER -> TRUE

\* `'values' in raw_measurements_data` (line 95) for a dict (key lookup), a
\* list (membership) and a string (substring)
HasValues(raw) ==
    CASE raw.t = "obj" -> raw.values.t # "missing"
      [] raw.t = "list" -> \E i \in 1..Len(raw.elems) : raw.elems[i] = Str(ValuesKey)
      [] raw.t = "str" ->
           \E i \in 1..(Len(raw.s) - Len(ValuesKey) + 1) :
               SubSeq(raw.s, i, i + Len(ValuesKey) - 1) = ValuesKey
      [] OTHER -> FALSE

\* the validation gate of lines 95-97: "absent" (print and return None),
\* "pass", or the TypeError of `in` on a number
Gate(raw) ==
    IF ~RawTruthy(raw) THEN "absent"
    ELSE IF raw.t \in {"num", "bool"} THEN "TypeError"
    ELSE IF ~HasValues(raw) THEN "absent"
    ELSE "pass"

(***************************************************************************)
(* process_measurement_data, lines 81-132.                                 *)
(***************************************************************************)
\* lines 109-113: the try block around strptime, given what strptime did
DateOrWarning(date_str, parsed) ==
    IF parsed.ok
    THEN [exc |-> "none", date |-> parsed.date, log |-> <<>>]
    ELSE [exc |-> "none", date |-> NoDate, log |-> <<DateWarning(date_str)>>]

\* ParseDate with a fault: `if date_str is not None:` in place of `if date_str:`
ParseDateIfNotNone(date_str) ==
    IF date_str.t = "null"
    THEN [exc |-> "none", date |-> NoDate, log |-> <<>>]
    ELSE IF date_str.t # "str"
    THEN [exc |-> "TypeError", date |-> NoDate, log |-> <<>>]
    ELSE DateOrWarning(date_str, Strptime(date_str.s))

\* lines 106-113: parsed_date from date_str; strptime raises TypeError, which
\* the except clause does not name, for what is no string
ParseDate(date_str) ==
    IF ~Truthy(date_str)
    THEN [exc |-> "none", date |-> NoDate, log |-> <<>>]
    ELSE IF date_str.t # "str"
    THEN [exc |-> "TypeError", date |-> NoDate, log |-> <<>>]
    ELSE DateOrWarning(date_str, Strptime(date_str.s))

\* lines 118-122: the try block around float(), given what float() did;
\* except (ValueError, TypeError)
ValueOrWarning(value_str, f) ==
    IF f.exc = "none"
    THEN [exc |-> "none", value |-> f.val, log |-> <<>>]
    ELSE IF f.exc \in {"ValueError", "TypeError"}
    THEN [exc |-> "none", value |-> NoFloat, log |-> <<ValueWarning(value_str)>>]
    ELSE [exc |-> f.exc, value |-> NoFloat, log |-> <<>>]

\* lines 115-122: parsed_value from value_str
ParseValue(value_str) ==
    IF value_str.t = "null"
    THEN [exc |-> "none", value |-> NoFloat, log |-> <<>>]
    ELSE ValueOrWarning(value_str, FloatOf(value_str))

\* Pass with a fault: an entry whose date did not parse loses its value too
PassCoupled(d, v) ==
    IF d.exc # "none"
    THEN [exc |-> d.exc, at |-> "date", date |-> NoDate, value |-> NoFloat,
          log |-> d.log]
    ELSE [exc |-> v.exc, at |-> IF v.exc = "none" THEN "done" ELSE "value",
          date |-> d.date,
          value |-> IF d.log # <<>> THEN NoFloat ELSE v.value,
          log |-> d.log \o v.log]

\* lines 106-129 given the outcome d of the date part and v of the value
\* part: the value part runs only if the date part did not raise
Pass(d, v) ==
    IF d.exc # "none"
    THEN [exc |-> d.exc, at |-> "date", date |-> NoDate, value |-> NoFloat,
          log |-> d.log]
    ELSE [exc |-> v.exc, at |-> IF v.exc = "none" THEN "done" ELSE "value",
          date |-> d.date, value |-> v.value, log |-> d.log \o v.log]

\* one pass of the loop body, lines 103-129, for one item:
\*   exc   : the exception it raises, "none" when the entry is appended
\*   at    : where it stopped ("get": item.get, "date", "value", "done")
\*   date, value : parsed_date and parsed_value as far as they were computed
\*   log   : the warnings it printed
ProcessItem(item) ==
    IF item.t # "obj"
    THEN [exc |-> "AttributeError", at |-> "get", date |-> NoDate,
          value |-> NoFloat, log |-> <<>>]
    ELSE Pass(ParseDate(DictGet(item.date)), ParseValue(DictGet(item.value)))

\* acc after a pass with outcome r; acc is [exc, values, log, trace]:
\* processed_values so far, what was printed, and every pass made
AfterPass(acc, r) ==
    [exc |-> r.exc,
     values |-> IF r.exc = "none"
                THEN Append(acc.values, [date |-> r.date, value |-> r.value])
                ELSE acc.values,
     log |-> acc.log \o r.log,
     trace |-> Append(acc.trace, r)]

\* the loop of lines 102-129 over the items still to come
RECURSIVE ProcessItems(_, _)
ProcessItems(items, acc) ==
    IF items = <<>> \/ acc.exc # "none" THEN acc
    ELSE ProcessItems(Tail(items), AfterPass(acc, ProcessItem(Head(items))))

\* line 100: processed_values = []
NoPasses == [exc |-> "none", values |-> <<>>, log |-> <<>>, trace |-> <<>>]

\* the returned dict, or None
NoOut == [none |-> TRUE, key |-> Null, values |-> <<>>]
Processed(key, values) == [none |-> FALSE, key |-> key, values |-> values]

\* ProcessedKey with a fault: .get('key', '') in place of .get('key')
ProcessedKeyOrEmpty(raw) == IF raw.key.t = "missing" THEN Str(<<>>) ELSE raw.key

\* line 99: processed_data = {'key': raw_measurements_data.get('key')}
ProcessedKey(raw) == DictGet(raw.key)

\* `for item in ...` can iterate the 'values' field (line 102)
Iterable(values) == values.t \in {"list", "str", "obj"}

\* lines 131-132 after the loop ended as loop: return processed_data, unless
\* a pass raised
Return(raw, loop) ==
    IF loop.exc # "none"
    THEN [exc |-> loop.exc, out |-> NoOut, log |-> loop.log, trace |-> loop.trace]
    ELSE [exc |-> "none", out |-> Processed(ProcessedKey(raw), loop.values),
          log |-> loop.log, trace |-> loop.trace]

\* lines 99-132, once the gate is passed
Normalize(raw) ==
    IF raw.t # "obj"
    THEN [exc |-> "AttributeError", out |-> NoOut, log |-> <<>>, trace |-> <<>>]
    ELSE IF ~Iterable(raw.values)
    THEN [exc |-> "TypeError", out |-> NoOut, log |-> <<>>, trace |-> <<>>]
    ELSE Return(raw, ProcessItems(raw.values.items, NoPasses))

\* lines 95-132 given the verdict g of the gate
Gated(raw, g) ==
    IF g = "absent"
    THEN [exc |-> "none", out |-> NoOut, log |-> <<InvalidData>>, trace |-> <<>>]
    ELSE IF g # "pass"
    THEN [exc |-> g, out |-> NoOut, log |-> <<>>, trace |-> <<>>]
    ELSE Normalize(raw)

\* the call: [exc, out, log, trace]
ProcessMeasurementData(raw) == Gated(raw, Gate(raw))

\* RawAfter with a fault: the loop takes the entries out of the list as it goes
RawAfterConsumed(raw) ==
    IF raw.t = "obj" /\ raw.values.t = "list"
    THEN [raw EXCEPT !.values.items = <<>>]
    ELSE raw

\* the caller's object after the call: the function only reads it
RawAfter(raw) == raw

(***************************************************************************)
(* The inputs of the model.                                                *)
(***************************************************************************)
ValidDate ==
    <<"2", "0", "2", "4", "-", "0", "1", "-", "0", "1", " ",
      "1", "0", ":", "0", "0", ":", "0", "0">>
\* accepted by strptime although not zero-padded
ShortDate == <<"2", "0", "2", "4", "-", "1", "-", "1", " ", "1", ":", "0", ":", "0">>
\* matches the format and names no day of the calendar
NoSuchDay ==
    <<"2", "0", "2", "4", "-", "0", "2", "-", "3", "0", " ",
      "1", "0", ":", "0", "0", ":", "0", "0">>
NotADate == <<"n", "o", "t", "-", "a", "-", "d", "a", "t", "e">>
PM10 == <<"P", "M", "1", "0">>

DateSamples ==
    {Missing, Null, Str(<<>>), Str(ValidDate), Str(ShortDate), Str(NoSuchDay),
     Str(NotADate), Num(0), Num(5)}
ValueSamples ==
    {Missing, Null, Str(<<>>), Str(<<"1", "2", ".", "5">>), Str(<<"a", "b", "c">>),
     Str(<<"n", "a", "n">>), Num(7), BigInt, List(0)}

\* every date sample beside a good value, every value sample beside a good
\* date, entries with both fields bad, and entries that are no dicts
Entries ==
    {Obj(d, Str(<<"1", "2", ".", "5">>)) : d \in DateSamples}
    \cup {Obj(Str(ValidDate), v) : v \in ValueSamples}
    \cup {Obj(Str(NotADate), Str(<<"a", "b", "c">>)), Obj(Str(NotADate), Null),
          Obj(Missing, Missing), Obj(Str(NotADate), BigInt),
          Obj(Num(5), Str(<<"a", "b", "c">>))}
    \cup {NonObj("null"), NonObj("str")}

EntryLists == UNION {[1..k -> Entries] : k \in 0..MaxLen}

ValuesFields ==
    {ValuesField("list", l) : l \in EntryLists}
    \cup {NoValues, ValuesField("null", <<>>), ValuesField("num", <<>>),
          ValuesField("str", <<>>), ValuesField("str", <<NonObj("str")>>),
          ValuesField("obj", <<>>), ValuesField("obj", <<NonObj("str")>>)}

RawInputs ==
    {RawDict(k, v) : k \in {Missing, Str(PM10)}, v \in ValuesFields}
    \cup {RawNone, RawNum(0), RawNum(5), RawStr(<<>>), RawStr(<<"a", "b", "c">>),
          RawStr(ValuesKey), RawList(<<>>), RawList(<<Num(1)>>),
          RawList(<<Str(ValuesKey)>>)}

\* the bodies the measurement endpoint answers with: JSON null and the raw
\* inputs of at most one entry
WireSeries == {r \in RawInputs : Len(r.values.items) <= 1}
\* the bodies of the station and sensor endpoints: lists of record ids
WireLists == UNION {[1..k -> 1..MaxId] : k \in 0..MaxId}

(***************************************************************************)
(* State: the last call of a public function and what the caller holds.    *)
(***************************************************************************)
VARIABLES
    op,       \* the function last called ("init": none yet)
    arg,      \* its station_id / sensor_id (0: none)
    given,    \* the raw data passed to process_measurement_data
    wire,     \* what the network answered to its GET
    gets,     \* the requests.get calls it made
    exc,      \* the exception that left it ("none": it returned)
    retNone,  \* it returned None
    fetched,  \* the list fetch_stations / fetch_sensors_for_station returned
    raw,      \* the raw data the caller holds (fetched, or passed in directly)
    out,      \* what process_measurement_data returned
    log,      \* what the call printed
    trace,    \* the passes of the loop of process_measurement_data
    prev,     \* the outcome of the call before, on the same raw object
    calls     \* calls of process_measurement_data on the object in raw

vars ==
    <<op, arg, given, wire, gets, exc, retNone, fetched, raw, out, log, trace,
      prev, calls>>

NoPrev == [exc |-> "nocall", out |-> NoOut, log |-> <<>>]

Init ==
    /\ op = "init" /\ arg = 0 /\ given = RawNone /\ wire = NoWire /\ gets = <<>>
    /\ exc = "none" /\ retNone = FALSE /\ fetched = <<>>
    /\ raw \in RawInputs
    /\ out = NoOut /\ log = <<>> /\ trace = <<>> /\ prev = NoPrev /\ calls = 0

\* The fetches are made in the order of the call chain of lines 138-176, each
\* on what the one before returned, by a caller that holds no raw data yet.
Idle == raw = RawNone /\ calls = 0
\* `if stations:` / `if sensors:` (lines 139, 159)
GotList == exc = "none" /\ ~retNone /\ fetched # <<>>
\* the ids of the records of the list last fetched (lines 152, 165)
FetchedIds == {fetched[i] : i \in 1..Len(fetched)}

\* fetch_stations(), lines 8-32
FetchStations ==
    \E w \in WireOutcomes, body \in WireLists :
        LET f == Handled(Raised(w), StationsError(Raised(w)))
        IN  /\ Idle /\ op = "init"
            /\ op' = "fetch_stations" /\ arg' = 0 /\ wire' = w
            /\ gets' = Gets("/station/findAll", 0, w)
            /\ exc' = f.exc /\ log' = f.log /\ retNone' = f.none
            /\ fetched' = IF f.exc = "none" /\ ~f.none THEN body ELSE <<>>
            /\ UNCHANGED <<given, raw, out, trace, prev, calls>>

\* fetch_sensors_for_station(station_id), lines 34-56
FetchSensorsForStation ==
    \E station_id \in FetchedIds, w \in WireOutcomes, body \in WireLists :
        LET f == Handled(Raised(w), SensorsError(station_id, Raised(w)))
        IN  /\ Idle /\ op = "fetch_stations" /\ GotList
            /\ op' = "fetch_sensors_for_station" /\ arg' = station_id /\ wire' = w
            /\ gets' = Gets("/station/sensors/", station_id, w)
            /\ exc' = f.exc /\ log' = f.log /\ retNone' = f.none
            /\ fetched' = IF f.exc = "none" /\ ~f.none THEN body ELSE <<>>
            /\ UNCHANGED <<given, raw, out, trace, prev, calls>>

\* fetch_measurements_for_sensor(sensor_id), lines 58-79; the caller keeps
\* what it returns (line 169)
FetchMeasurementsForSensor ==
    \E sensor_id \in FetchedIds, w \in WireOutcomes, body \in WireSeries :
        LET f == Handled(Raised(w), MeasurementsError(sensor_id, Raised(w)))
        IN  /\ Idle /\ op = "fetch_sensors_for_station" /\ GotList
            /\ op' = "fetch_measurements_for_sensor" /\ arg' = sensor_id /\ wire' = w
            /\ gets' = Gets("/data/getData/", sensor_id, w)
            /\ exc' = f.exc /\ log' = f.log
            /\ retNone' = (f.none \/ (f.exc = "none" /\ body = RawNone))
            /\ raw' = IF f.exc = "none" /\ ~f.none THEN body ELSE RawNone
            /\ UNCHANGED <<given, fetched, out, trace, prev, calls>>

\* the caller's state after a call that ended as r
Called(r) ==
    /\ calls < MaxCalls
    /\ op' = "process_measurement_data" /\ arg' = 0 /\ given' = raw
    /\ wire' = NoWire /\ gets' = <<>> /\ fetched' = <<>>
    /\ exc' = r.exc /\ retNone' = (r.exc = "none" /\ r.out.none)
    /\ out' = r.out /\ log' = r.log /\ trace' = r.trace
    /\ raw' = RawAfter(raw)
    /\ prev' = IF calls = 0 THEN NoPrev ELSE [exc |-> exc, out |-> out, log |-> log]
    /\ calls' = calls + 1

\* process_measurement_data(raw), lines 81-132, on the data the caller holds
Process == Called(ProcessMeasurementData(raw))

Next ==
    \/ FetchStations
    \/ FetchSensorsForStation
    \/ FetchMeasurementsForSensor
    \/ Process

Spec == Init /\ [][Next]_vars

(***************************************************************************)
(* Vocabulary of the properties.                                           *)
(***************************************************************************)
IsFetch ==
    op \in {"fetch_stations", "fetch_sensors_for_station",
            "fetch_measurements_for_sensor"}
IsProcess == op = "process_measurement_data"
\* process_measurement_data returned a dict
ReturnedSeries == IsProcess /\ exc = "none" /\ ~out.none
\* the items of the 'values' field of the data passed in
Items == given.values.items
\* the 'values' field is a list of dicts
IsSeries ==
    /\ given.t = "obj" /\ given.values.t = "list"
    /\ \A i \in 1..Len(Items) : Items[i].t = "obj"
\* a connection error, a timeout, or an HTTP 4xx / 5xx status
TransportFailure(w) ==
    \/ w.kind \in {"ConnectionError", "Timeout"}
    \/ w.kind = "response" /\ w.status \in 400..599
\* a non-empty string that strptime rejects
Malformed(d) == d.t = "str" /\ d.s # <<>> /\ ~Strptime(d.s).ok
\* the passes of the loop that got as far as the date / the value of a dict
DatePasses == {i \in 1..Len(trace) : trace[i].at # "get"}
ValuePasses == {i \in 1..Len(trace) : trace[i].at \in {"value", "done"}}
DonePasses == {i \in 1..Len(trace) : trace[i].at = "done"}
\* the messages of kind k in a log, in order
RECURSIVE OfKind(_, _)
OfKind(l, k) ==
    IF l = <<>> THEN <<>>
    ELSE IF Head(l).kind = k THEN <<Head(l)>> \o OfKind(Tail(l), k)
    ELSE OfKind(Tail(l), k)

DateOf(i) == DictGet(Items[i].date)
ValueOf(i) == DictGet(Items[i].value)
DateWarnings(l) == OfKind(l, "date_warning")
ValueWarnings(l) == OfKind(l, "value_warning")

(***************************************************************************)
(* C1: for a raw series that passes the gate and whose 'values' is a list  *)
(* of N entries, the call returns a series of exactly N entries, the i-th  *)
(* computed from the i-th raw entry, whatever the date and value fields    *)
(* hold.  Refuted: a date that is no string (or a value too large for a    *)
(* float) makes the call raise.                                            *)
(***************************************************************************)
C1_OneEntryPerRawEntry ==
    (IsProcess /\ IsSeries) =>
        /\ exc = "none" /\ ~out.none
        /\ Len(out.values) = Len(Items)
        /\ \A i \in 1..Len(Items) :
               /\ out.values[i].date = ParseDate(DateOf(i)).date
               /\ out.values[i].value = ParseValue(ValueOf(i)).value

(***************************************************************************)
(* C2: no exception crosses the module boundary: every public operation    *)
(* ends by returning a value or None.  Refuted by process_measurement_data *)
(* on a 'values' that is null or no list, an entry that is no dict, a      *)
(* date that is no string.                                                 *)
(***************************************************************************)
C2_NoExceptionCrosses == exc = "none"

(***************************************************************************)
(* C3: process_measurement_data returns None (with the error message) if   *)
(* and only if the input is None, empty, or has no 'values' field; for     *)
(* every input with a 'values' field it returns a normalized series.       *)
(* Stated for the inputs that are None or a dict.  Refuted: with a         *)
(* 'values' field that cannot be processed the call raises.                *)
(***************************************************************************)
C3_OneValidationGate ==
    (IsProcess /\ given.t \in {"none", "obj"}) =>
        LET hasField == given.t = "obj" /\ given.values.t # "missing"
        IN  /\ (exc = "none" /\ out.none /\ log = <<InvalidData>>) <=> ~hasField
            /\ hasField => (exc = "none" /\ ~out.none)

(***************************************************************************)
(* C4: every transport failure (connection error, timeout, HTTP 4xx/5xx)   *)
(* makes a fetch return None, not raise, after printing exactly one error  *)
(* message, which names the station / sensor id passed in.                 *)
(***************************************************************************)
C4_TransportFailureIsAbsent ==
    (IsFetch /\ TransportFailure(wire)) =>
        /\ exc = "none" /\ retNone
        /\ Len(log) = 1
        /\ log[1].id = arg
        /\ log[1].kind =
               CASE op = "fetch_stations" -> "stations_error"
                 [] op = "fetch_sensors_for_station" -> "sensors_error"
                 [] OTHER -> "measurements_error"
        /\ op # "fetch_stations" => arg \in 1..MaxId

C4_Witness ==
    /\ op = "fetch_sensors_for_station" /\ wire.kind = "response" /\ wire.status = 404
    /\ retNone /\ log = <<SensorsError(arg, "HTTPError")>> /\ arg = MaxId

(***************************************************************************)
(* C5: no retries: every execution of a fetch issues exactly one GET, to   *)
(* its endpoint with its id, whether the request succeeds or fails.        *)
(***************************************************************************)
C5_ExactlyOneGet ==
    IsFetch =>
        /\ Len(gets) = 1
        /\ gets[1].id = arg /\ gets[1].timeout = Timeout
        /\ gets[1].endpoint =
               CASE op = "fetch_stations" -> "/station/findAll"
                 [] op = "fetch_sensors_for_station" -> "/station/sensors/"
                 [] OTHER -> "/data/getData/"

C5_Witness ==
    /\ op = "fetch_measurements_for_sensor" /\ wire.kind = "Timeout"
    /\ retNone /\ Len(gets) = 1

(***************************************************************************)
(* C6: for every entry whose value the loop converts: a null value gives   *)
(* an absent value and no value warning; a non-null value that cannot be   *)
(* converted gives an absent value and exactly one value warning; a        *)
(* convertible one gives that number and no warning.  Refuted: an integer  *)
(* too large for a float cannot be converted and float() raises            *)
(* OverflowError, which the except clause does not name.                   *)
(***************************************************************************)
C6_ValueCases ==
    IsProcess =>
        \A i \in ValuePasses :
            LET v == ValueOf(i)
                w == ValueWarnings(trace[i].log)
            IN  /\ v.t = "null" =>
                       (trace[i].exc = "none" /\ ~trace[i].value.some /\ w = <<>>)
                /\ (v.t # "null" /\ FloatOf(v).exc # "none") =>
                       /\ trace[i].exc = "none" /\ ~trace[i].value.some
                       /\ w = <<ValueWarning(v)>>
                /\ (v.t # "null" /\ FloatOf(v).exc = "none") =>
                       /\ trace[i].exc = "none" /\ w = <<>>
                       /\ trace[i].value = FloatOf(v).val

C9_KeyPreserved ==
    ReturnedSeries =>
        /\ given.key.t # "missing" => out.key = given.key
        /\ given.key.t = "missing" => out.key = Null

C9_Witness ==
    /\ ReturnedSeries /\ given.key.t = "missing" /\ out.key = Null
    /\ Len(out.values) >= 1
    /\ \A i \in 1..Len(out.values) : ~out.values[i].date.some /\ ~out.values[i].value.some

=============================================================================
